---- MODULE Spec2Model ----
(***************************************************************************)
(* Model of the options page of the Immobile extension                     *)
(* (src/code/js/options.js): the rule validator, the domain normaliser,    *)
(* the button-index parser, and the storeRule / deleteRule / table         *)
(* handlers running against the asynchronous chrome.storage.sync store.    *)
(*                                                                         *)
(* A JavaScript string is a sequence of one-character strings, so that     *)
(* trimming, regular-expression matching and parsing are computed on the   *)
(* characters.  The alphabets hold no line terminator, hence the regex     *)
(* atom "." matches every character of every modelled string.              *)
(***************************************************************************)
EXTENDS Integers, Sequences, FiniteSets, TLC

VARIABLES
    storage,   \* chrome.storage.sync "redirectionRules" (undefined reads as [])
    reqq,      \* storage requests issued by the page, not yet served (FIFO)
    cbq,       \* storage callbacks delivered to the page, not yet run (FIFO)
    tables,    \* the #currentRulesTable elements of the container, document order
    msgs,      \* chrome.runtime.sendMessage announcements, in order
    log,       \* the last debugLog message
    nops,      \* number of user operations (calls and clicks) so far
    fin,       \* the arguments of the function a function specification applies
    fout,      \* << >> before the application, <<result>> after it
    shown      \* history: per deleteRule call in flight, the row that was clicked

vars == <<storage, reqq, cbq, tables, msgs, log, nops, fin, fout, shown>>

(***************************************************************************)
(* Bounds                                                                  *)
(***************************************************************************)
MaxOps == 2        \* user operations in one behaviour of Spec
MaxRules == 2      \* length of the rules array handed to isValidInput
MaxUrlLen == 5     \* length of a string handed to getDomain
MaxIdLen == 4      \* length of a string handed to getButtonIndex

NullIndex == -1       \* the null getButtonIndex returns; parseInt yields none below 0
NoMatch == << >>      \* the null of a failed match; the groups used are never empty

(***************************************************************************)
(* Strings                                                                 *)
(***************************************************************************)
Str(alphabet, n) == UNION {[1..k -> alphabet] : k \in 0..n}

IsWhitespace(c) == c = " "

Digits == <<"0", "1", "2", "3", "4", "5", "6", "7", "8", "9">>
IsDigit(c) == \E k \in 1..10 : Digits[k] = c
DigitValue(c) == (CHOOSE k \in 1..10 : Digits[k] = c) - 1

\* String.prototype.trim
trim(s) ==
    IF \A i \in 1..Len(s) : IsWhitespace(s[i]) THEN <<>>
    ELSE LET first == CHOOSE i \in 1..Len(s) :
                          /\ ~IsWhitespace(s[i])
                          /\ \A j \in 1..(i-1) : IsWhitespace(s[j])
             last == CHOOSE i \in 1..Len(s) :
                          /\ ~IsWhitespace(s[i])
                          /\ \A j \in (i+1)..Len(s) : IsWhitespace(s[j])
         IN SubSeq(s, first, last)

\* hasOwnProperty(key) && obj[key] === value
hasValue(obj, key, value) == key \in DOMAIN obj /\ obj[key] = value

\* /\S/.test(string)
hasChars(string) == \E i \in 1..Len(string) : ~IsWhitespace(string[i])

\* parseInt(digits, 10) of a non-empty run of decimal digits
RECURSIVE parseInt(_)
parseInt(ds) ==
    IF Len(ds) = 0 THEN 0
    ELSE 10 * parseInt(SubSeq(ds, 1, Len(ds) - 1)) + DigitValue(ds[Len(ds)])

\* seeded fault: the match without the "+", one digit only
matchDigits_OneDigit(buttonId) ==
    IF \A i \in 1..Len(buttonId) : ~IsDigit(buttonId[i]) THEN NoMatch
    ELSE LET start == CHOOSE i \in 1..Len(buttonId) :
                          /\ IsDigit(buttonId[i])
                          /\ \A j \in 1..(i-1) : ~IsDigit(buttonId[j])
         IN SubSeq(buttonId, start, start)

\* buttonId.match(/([0-9])+/): the leftmost, longest run of digits, or NoMatch
matchDigits(buttonId) ==
    IF \A i \in 1..Len(buttonId) : ~IsDigit(buttonId[i]) THEN NoMatch
    ELSE LET start == CHOOSE i \in 1..Len(buttonId) :
                          /\ IsDigit(buttonId[i])
                          /\ \A j \in 1..(i-1) : ~IsDigit(buttonId[j])
             stop == CHOOSE i \in start..Len(buttonId) :
                          /\ \A j \in start..i : IsDigit(buttonId[j])
                          /\ (i = Len(buttonId) \/ ~IsDigit(buttonId[i+1]))
         IN SubSeq(buttonId, start, stop)

\* the TypeError of indexing a null match is caught and turned into null
getButtonIndex(buttonId) ==
    IF matchDigits(buttonId) = NoMatch THEN NullIndex
    ELSE parseInt(matchDigits(buttonId))

\* /\/\/(.+)/i.exec(url): group 1 of the leftmost match, or NoMatch
execProtocol(url) ==
    IF \E i \in 1..(Len(url) - 2) : url[i] = "/" /\ url[i+1] = "/"
    THEN LET i == CHOOSE k \in 1..(Len(url) - 2) :
                      /\ url[k] = "/" /\ url[k+1] = "/"
                      /\ \A j \in 1..(k-1) : ~(url[j] = "/" /\ url[j+1] = "/")
         IN SubSeq(url, i + 2, Len(url))
    ELSE NoMatch

\* /(.+?)\//i.exec(s): group 1 of the leftmost match, lazily extended, or NoMatch
execPath(s) ==
    IF \E p \in 1..Len(s) : \E j \in (p+1)..Len(s) : s[j] = "/"
    THEN LET p == CHOOSE k \in 1..Len(s) :
                      /\ \E j \in (k+1)..Len(s) : s[j] = "/"
                      /\ \A h \in 1..(k-1) : ~(\E j \in (h+1)..Len(s) : s[j] = "/")
             e == CHOOSE j \in (p+1)..Len(s) :
                      /\ s[j] = "/"
                      /\ \A h \in (p+1)..(j-1) : s[h] # "/"
         IN SubSeq(s, p, e - 1)
    ELSE NoMatch

\* the first half of getDomain: the url after its protocol
noProtocolOf(url) == IF execProtocol(url) # NoMatch THEN execProtocol(url) ELSE url

getDomain(url) ==
    LET noProtocol == noProtocolOf(url)
        noPath == IF execPath(noProtocol) # NoMatch THEN execPath(noProtocol) ELSE url
    IN noPath

\* String.prototype.indexOf: the first position of needle in hay, 0 if none
indexOf(hay, needle) ==
    IF \E i \in 1..(Len(hay) - Len(needle) + 1) :
           SubSeq(hay, i, i + Len(needle) - 1) = needle
    THEN CHOOSE i \in 1..(Len(hay) - Len(needle) + 1) :
             /\ SubSeq(hay, i, i + Len(needle) - 1) = needle
             /\ \A j \in 1..(i-1) : SubSeq(hay, j, j + Len(needle) - 1) # needle
    ELSE 0

\* longer.replace(shorter, ''): the first occurrence removed
replaceFirst(longer, shorter) ==
    LET i == indexOf(longer, shorter)
    IN IF i = 0 THEN longer
       ELSE SubSeq(longer, 1, i - 1) \o SubSeq(longer, i + Len(shorter), Len(longer))

\* seeded fault: the destination is taken as the longer domain whatever the lengths
getSubdomainDifference_DestinationLonger(source, destination) ==
    LET src == getDomain(source)
        dst == getDomain(destination)
        longer == dst
        shorter == src
        postReplace == replaceFirst(longer, shorter)
    IN IF Len(postReplace) = Len(longer) THEN 0
       ELSE Cardinality({i \in 1..Len(postReplace) : postReplace[i] = "."})

getSubdomainDifference(source, destination) ==
    LET src == getDomain(source)
        dst == getDomain(destination)
        longer == IF Len(dst) >= Len(src) THEN dst ELSE src
        shorter == IF Len(dst) >= Len(src) THEN src ELSE dst
        postReplace == replaceFirst(longer, shorter)
    IN IF Len(postReplace) = Len(longer) THEN 0
       ELSE Cardinality({i \in 1..Len(postReplace) : postReplace[i] = "."})

\* seeded fault: the cycle check placed before the duplicate check
isValidInput_CycleFirst(source, destination, rules) ==
    IF ~hasChars(source) \/ ~hasChars(destination)
    THEN [ok |-> FALSE, popup |-> "NO_EMPTY_TEXT"]
    ELSE IF \E i \in 1..Len(rules) : hasValue(rules[i], "dest", source)
    THEN [ok |-> FALSE, popup |-> "NO_CYCLES_TEXT"]
    ELSE IF \E i \in 1..Len(rules) : hasValue(rules[i], "src", source)
    THEN [ok |-> FALSE, popup |-> "NO_DUPS_TEXT"]
    ELSE IF getSubdomainDifference(source, destination) > 0
    THEN [ok |-> TRUE, popup |-> "MISMATCHED_SUBDOMAINS_TEXT"]
    ELSE [ok |-> TRUE, popup |-> "none"]

\* seeded fault: the duplicate check looks at the first rule only
isValidInput_DupFrontOnly(source, destination, rules) ==
    IF ~hasChars(source) \/ ~hasChars(destination)
    THEN [ok |-> FALSE, popup |-> "NO_EMPTY_TEXT"]
    ELSE IF Len(rules) > 0 /\ hasValue(rules[1], "src", source)
    THEN [ok |-> FALSE, popup |-> "NO_DUPS_TEXT"]
    ELSE IF \E i \in 1..Len(rules) : hasValue(rules[i], "dest", source)
    THEN [ok |-> FALSE, popup |-> "NO_CYCLES_TEXT"]
    ELSE IF getSubdomainDifference(source, destination) > 0
    THEN [ok |-> TRUE, popup |-> "MISMATCHED_SUBDOMAINS_TEXT"]
    ELSE [ok |-> TRUE, popup |-> "none"]

\* seeded fault: the cycle check compares the candidate destination
isValidInput_CycleOnDestination(source, destination, rules) ==
    IF ~hasChars(source) \/ ~hasChars(destination)
    THEN [ok |-> FALSE, popup |-> "NO_EMPTY_TEXT"]
    ELSE IF \E i \in 1..Len(rules) : hasValue(rules[i], "src", source)
    THEN [ok |-> FALSE, popup |-> "NO_DUPS_TEXT"]
    ELSE IF \E i \in 1..Len(rules) : hasValue(rules[i], "dest", destination)
    THEN [ok |-> FALSE, popup |-> "NO_CYCLES_TEXT"]
    ELSE IF getSubdomainDifference(source, destination) > 0
    THEN [ok |-> TRUE, popup |-> "MISMATCHED_SUBDOMAINS_TEXT"]
    ELSE [ok |-> TRUE, popup |-> "none"]

\* seeded fault: no cycle check at all
isValidInput_NoCycleCheck(source, destination, rules) ==
    IF ~hasChars(source) \/ ~hasChars(destination)
    THEN [ok |-> FALSE, popup |-> "NO_EMPTY_TEXT"]
    ELSE IF \E i \in 1..Len(rules) : hasValue(rules[i], "src", source)
    THEN [ok |-> FALSE, popup |-> "NO_DUPS_TEXT"]
    ELSE IF getSubdomainDifference(source, destination) > 0
    THEN [ok |-> TRUE, popup |-> "MISMATCHED_SUBDOMAINS_TEXT"]
    ELSE [ok |-> TRUE, popup |-> "none"]

\* isValidInput: its return value and the notification it shows
isValidInput(source, destination, rules) ==
    IF ~hasChars(source) \/ ~hasChars(destination)
    THEN [ok |-> FALSE, popup |-> "NO_EMPTY_TEXT"]
    ELSE IF \E i \in 1..Len(rules) : hasValue(rules[i], "src", source)
    THEN [ok |-> FALSE, popup |-> "NO_DUPS_TEXT"]
    ELSE IF \E i \in 1..Len(rules) : hasValue(rules[i], "dest", source)
    THEN [ok |-> FALSE, popup |-> "NO_CYCLES_TEXT"]
    ELSE IF getSubdomainDifference(source, destination) > 0
    THEN [ok |-> TRUE, popup |-> "MISMATCHED_SUBDOMAINS_TEXT"]
    ELSE [ok |-> TRUE, popup |-> "none"]

(***************************************************************************)
(* The page and the storage backend                                        *)
(***************************************************************************)
\* the values the user can type into the two input boxes
Candidates == { <<"a">>, <<"b">>, <<" ", "a">>, <<" ">> }

\* "deleteRuleButton-"
ButtonPrefix == <<"d", "e", "l", "e", "t", "e", "R", "u", "l", "e",
                  "B", "u", "t", "t", "o", "n", "-">>

\* the decimal digits of a row number, as a template literal prints it
RECURSIVE toDigits(_)
toDigits(n) ==
    IF n < 10 THEN <<Digits[n + 1]>>
    ELSE toDigits(n \div 10) \o <<Digits[(n % 10) + 1]>>

\* `deleteRuleButton-${row}`
buttonIdOf(row) == ButtonPrefix \o toDigits(row)

\* the ids deleteRule is called with directly
ButtonIds == { buttonIdOf(0), buttonIdOf(1), ButtonPrefix, << >> }

GetRequest(callback) == [op |-> "get", cb |-> callback]
SetRequest(rules, callback) == [op |-> "set", value |-> rules, cb |-> callback]

\* rules.splice(buttonIndex, 1): the array left, and the array of the removed
spliceRest(rules, buttonIndex) ==
    IF buttonIndex < Len(rules)
    THEN SubSeq(rules, 1, buttonIndex) \o SubSeq(rules, buttonIndex + 2, Len(rules))
    ELSE rules

spliceRemoved(rules, buttonIndex) ==
    IF buttonIndex < Len(rules) THEN << rules[buttonIndex + 1] >> ELSE << >>

\* the requests one call of storeRule issues
storeRuleRequests(source, destination, isRegex) ==
    << GetRequest([fn |-> "storeRule", source |-> source,
                   destination |-> destination, isRegex |-> isRegex]) >>

\* seeded fault: the rule is pushed and written whatever isValidInput returns
storeRuleCallbackRequests_Unchecked(source, destination, isRegex, rules) ==
    << SetRequest(Append(rules, [src |-> trim(source),
                                 dest |-> trim(destination),
                                 regex |-> isRegex]),
                  [fn |-> "storeRuleSet", source |-> trim(source)]) >>

\* seeded fault: the rule is pushed as typed, without trim()
storeRuleCallbackRequests_Untrimmed(source, destination, isRegex, rules) ==
    IF isValidInput(source, destination, rules).ok
    THEN << SetRequest(Append(rules, [src |-> source,
                                      dest |-> destination,
                                      regex |-> isRegex]),
                       [fn |-> "storeRuleSet", source |-> source]) >>
    ELSE << >>

\* the requests the storage callback of storeRule issues, given the rules read
storeRuleCallbackRequests(source, destination, isRegex, rules) ==
    IF isValidInput(source, destination, rules).ok
    THEN << SetRequest(Append(rules, [src |-> trim(source),
                                      dest |-> trim(destination),
                                      regex |-> isRegex]),
                       [fn |-> "storeRuleSet", source |-> trim(source)]) >>
    ELSE << >>

\* the debugLog of the storage callback of storeRule: only a failure is logged
\* there (a success is logged once the set has completed)
storeRuleCallbackLog(source, destination, rules, before) ==
    IF isValidInput(source, destination, rules).ok THEN before
    ELSE [msg |-> "Failed to add rule", arg |-> source]

\* seeded fault: no test of the index against null
deleteRuleRequests_NoNullTest(buttonId) ==
    << GetRequest([fn |-> "deleteRule",
                   buttonIndex |-> getButtonIndex(buttonId)]) >>

\* the requests one call of deleteRule issues
deleteRuleRequests(buttonId) ==
    IF getButtonIndex(buttonId) = NullIndex THEN << >>
    ELSE << GetRequest([fn |-> "deleteRule",
                        buttonIndex |-> getButtonIndex(buttonId)]) >>

\* the debugLog of one call of deleteRule: only a null index is logged
deleteRuleLog(buttonId, before) ==
    IF getButtonIndex(buttonId) = NullIndex
    THEN [msg |-> "Invalid button index", arg |-> buttonId]
    ELSE before

\* the requests the storage callback of deleteRule issues, given the rules read
deleteRuleCallbackRequests(buttonIndex, rules) ==
    << SetRequest(spliceRest(rules, buttonIndex),
                  [fn |-> "deleteRuleSet", buttonIndex |-> buttonIndex,
                   removed |-> spliceRemoved(rules, buttonIndex)]) >>

\* deleteRulesTable: the first element with id currentRulesTable is removed
deleteRulesTable(ts) == IF Len(ts) > 0 THEN Tail(ts) ELSE ts

\* buildRulesTable issues one read of the rules
buildRulesTableRequests == << GetRequest([fn |-> "buildRulesTable"]) >>

\* document.getElementById(`deleteRuleButton-${btn}`): the first table, in
\* document order, that has such a row
firstTableWithRow(ts, btn) ==
    CHOOSE t \in 1..Len(ts) :
        /\ Len(ts[t]) > btn
        /\ \A u \in 1..(t-1) : Len(ts[u]) <= btn

\* addBtnListener for every btn in 0..ruleCount-1
RECURSIVE addBtnListeners(_, _, _)
addBtnListeners(ts, btn, ruleCount) ==
    IF btn >= ruleCount THEN ts
    ELSE LET t == firstTableWithRow(ts, btn)
             row == ts[t][btn + 1]
         IN addBtnListeners(
                [ts EXCEPT ![t][btn + 1] =
                    [row EXCEPT !.listeners = row.listeners + 1]],
                btn + 1, ruleCount)

\* the table built from the rules read: one row per rule, then the listeners
buildRulesTableCallback(ts, rules) ==
    IF Len(rules) > 0
    THEN addBtnListeners(
             Append(ts, [row \in 1..Len(rules) |->
                            [src |-> rules[row].src, dest |-> rules[row].dest,
                             id |-> buttonIdOf(row - 1), listeners |-> 0]]),
             0, Len(rules))
    ELSE ts

\* n copies of the requests of one deleteRule call
RECURSIVE repeatRequests(_, _)
repeatRequests(n, reqs) ==
    IF n = 0 THEN << >> ELSE reqs \o repeatRequests(n - 1, reqs)

\* the history entries of the deleteRule calls that issued the requests reqs:
\* row is << >> for a call that no click made, << the row displayed >> for a click
shownFor(row, reqs) == [i \in 1..Len(reqs) |-> row]

Init ==
    /\ storage = << >>
    /\ reqq = buildRulesTableRequests      \* buildRulesTable() runs at load
    /\ cbq = << >>
    /\ tables = << >>
    /\ msgs = << >>
    /\ log = [msg |-> "", arg |-> << >>]
    /\ nops = 0
    /\ fin = << >>
    /\ fout = << >>
    /\ shown = << >>

\* a click on "add rule" (isRegex FALSE) or "add regex" (isRegex TRUE)
storeRule(source, destination, isRegex) ==
    /\ nops < MaxOps
    /\ nops' = nops + 1
    /\ reqq' = reqq \o storeRuleRequests(source, destination, isRegex)
    /\ UNCHANGED <<storage, cbq, tables, msgs, log, fin, fout, shown>>

\* a call of deleteRule with a given button id
deleteRule(buttonId) ==
    /\ nops < MaxOps
    /\ nops' = nops + 1
    /\ reqq' = reqq \o deleteRuleRequests(buttonId)
    /\ log' = deleteRuleLog(buttonId, log)
    /\ shown' = shown \o shownFor(<< >>, deleteRuleRequests(buttonId))
    /\ UNCHANGED <<storage, cbq, tables, msgs, fin, fout>>

\* a click on the delete button of row r of table t: every listener added
\* to the button logs and calls deleteRule with the button's id
ClickDeleteButton(t, r) ==
    /\ nops < MaxOps
    /\ tables[t][r].listeners > 0
    /\ nops' = nops + 1
    /\ reqq' = reqq \o repeatRequests(tables[t][r].listeners,
                                      deleteRuleRequests(tables[t][r].id))
    /\ log' = deleteRuleLog(tables[t][r].id,
                  [msg |-> "listener triggered", arg |-> tables[t][r].id])
    /\ shown' = shown \o shownFor(<< [src |-> tables[t][r].src,
                                       dest |-> tables[t][r].dest] >>,
                                   repeatRequests(tables[t][r].listeners,
                                       deleteRuleRequests(tables[t][r].id)))
    /\ UNCHANGED <<storage, cbq, tables, msgs, fin, fout>>

\* the backend serves the oldest request: a read delivers the rules stored
ServeGet ==
    /\ Len(reqq) > 0
    /\ Head(reqq).op = "get"
    /\ reqq' = Tail(reqq)
    /\ cbq' = Append(cbq, [cb |-> Head(reqq).cb, result |-> storage])
    /\ UNCHANGED <<storage, tables, msgs, log, nops, fin, fout, shown>>

\* the backend serves the oldest request: a write replaces the rules stored
ServeSet ==
    /\ Len(reqq) > 0
    /\ Head(reqq).op = "set"
    /\ reqq' = Tail(reqq)
    /\ storage' = Head(reqq).value
    /\ cbq' = Append(cbq, [cb |-> Head(reqq).cb, result |-> << >>])
    /\ shown' = IF Head(reqq).cb.fn = "deleteRuleSet" THEN Tail(shown) ELSE shown
    /\ UNCHANGED <<tables, msgs, log, nops, fin, fout>>

\* function(result) of storeRule
StoreRuleGetCallback ==
    /\ Len(cbq) > 0
    /\ Head(cbq).cb.fn = "storeRule"
    /\ cbq' = Tail(cbq)
    /\ reqq' = reqq \o storeRuleCallbackRequests(Head(cbq).cb.source,
                           Head(cbq).cb.destination, Head(cbq).cb.isRegex,
                           Head(cbq).result)
    /\ log' = storeRuleCallbackLog(Head(cbq).cb.source, Head(cbq).cb.destination,
                                   Head(cbq).result, log)
    /\ UNCHANGED <<storage, tables, msgs, nops, fin, fout, shown>>

\* function() of the set in storeRule
StoreRuleSetCallback ==
    /\ Len(cbq) > 0
    /\ Head(cbq).cb.fn = "storeRuleSet"
    /\ cbq' = Tail(cbq)
    /\ msgs' = Append(msgs, [addRule |-> Head(cbq).cb.source])
    /\ log' = [msg |-> "Added new rule", arg |-> Head(cbq).cb.source]
    /\ tables' = deleteRulesTable(tables)
    /\ reqq' = reqq \o buildRulesTableRequests
    /\ UNCHANGED <<storage, nops, fin, fout, shown>>

\* function(result) of deleteRule
DeleteRuleGetCallback ==
    /\ Len(cbq) > 0
    /\ Head(cbq).cb.fn = "deleteRule"
    /\ cbq' = Tail(cbq)
    /\ reqq' = reqq \o deleteRuleCallbackRequests(Head(cbq).cb.buttonIndex,
                                                  Head(cbq).result)
    /\ UNCHANGED <<storage, tables, msgs, log, nops, fin, fout, shown>>

\* function() of the set in deleteRule; removed is element 0 of the spliced
\* array, and removed.src of an undefined removed throws a TypeError, which
\* ends the callback before it announces, logs or rebuilds anything
DeleteRuleSetCallback ==
    /\ Len(cbq) > 0
    /\ Head(cbq).cb.fn = "deleteRuleSet"
    /\ cbq' = Tail(cbq)
    /\ IF Len(Head(cbq).cb.removed) = 0
       THEN UNCHANGED <<msgs, log, tables, reqq>>
       ELSE /\ msgs' = Append(msgs, [deleteRule |-> Head(cbq).cb.removed[1].src])
            /\ log' = [msg |-> "Rule has been deleted",
                       arg |-> buttonIdOf(Head(cbq).cb.buttonIndex)]
            /\ tables' = deleteRulesTable(tables)
            /\ reqq' = reqq \o buildRulesTableRequests
    /\ UNCHANGED <<storage, nops, fin, fout, shown>>

\* function(result) of buildRulesTable
BuildRulesTableCallback ==
    /\ Len(cbq) > 0
    /\ Head(cbq).cb.fn = "buildRulesTable"
    /\ cbq' = Tail(cbq)
    /\ tables' = buildRulesTableCallback(tables, Head(cbq).result)
    /\ UNCHANGED <<storage, reqq, msgs, log, nops, fin, fout, shown>>

Next ==
    \/ \E source \in Candidates, destination \in Candidates, isRegex \in BOOLEAN :
           storeRule(source, destination, isRegex)
    \/ \E buttonId \in ButtonIds : deleteRule(buttonId)
    \/ \E t \in 1..Len(tables) : \E r \in 1..Len(tables[t]) : ClickDeleteButton(t, r)
    \/ ServeGet
    \/ ServeSet
    \/ StoreRuleGetCallback
    \/ StoreRuleSetCallback
    \/ DeleteRuleGetCallback
    \/ DeleteRuleSetCallback
    \/ BuildRulesTableCallback

Spec == Init /\ [][Next]_vars

(***************************************************************************)
(* Function specifications: the arguments are drawn in the initial state   *)
(* and one step applies the function; the page stays idle.                 *)
(***************************************************************************)
PageIdle ==
    /\ storage = << >>
    /\ reqq = << >>
    /\ cbq = << >>
    /\ tables = << >>
    /\ msgs = << >>
    /\ log = [msg |-> "", arg |-> << >>]
    /\ nops = 0
    /\ shown = << >>

PageUnchanged == UNCHANGED <<storage, reqq, cbq, tables, msgs, log, nops, shown>>

\* sources and destinations of the rules already in the array
StoredStrings == { <<"a">>, <<"b">> }

\* candidate sources and destinations handed to isValidInput
ValidateStrings ==
    { << >>, <<" ">>, <<"a">>, <<"b">>, <<" ", "a">>, <<"a", ".", "b">> }

RuleArrays ==
    UNION { [1..k -> [src : StoredStrings, dest : StoredStrings, regex : {FALSE}]]
            : k \in 0..MaxRules }

InitValidate ==
    /\ PageIdle
    /\ fin \in [source : ValidateStrings, destination : ValidateStrings,
                rules : RuleArrays]
    /\ fout = << >>

ApplyIsValidInput ==
    /\ fout = << >>
    /\ fout' = << isValidInput(fin.source, fin.destination, fin.rules) >>
    /\ UNCHANGED fin
    /\ PageUnchanged

NextValidate == ApplyIsValidInput

SpecValidate == InitValidate /\ [][NextValidate]_vars

UrlChars == { "a", "/", "." }

InitDomain ==
    /\ PageIdle
    /\ fin \in [url : Str(UrlChars, MaxUrlLen)]
    /\ fout = << >>

ApplyGetDomain ==
    /\ fout = << >>
    /\ fout' = << getDomain(fin.url) >>
    /\ UNCHANGED fin
    /\ PageUnchanged

NextDomain == ApplyGetDomain

SpecDomain == InitDomain /\ [][NextDomain]_vars

IdChars == { "n", "-", "0", "1", "9" }

InitIndex ==
    /\ PageIdle
    /\ fin \in [buttonId : Str(IdChars, MaxIdLen)
                              \cup { ButtonPrefix, buttonIdOf(0), buttonIdOf(999) }]
    /\ fout = << >>

ApplyGetButtonIndex ==
    /\ fout = << >>
    /\ fout' = << getButtonIndex(fin.buttonId) >>
    /\ UNCHANGED fin
    /\ PageUnchanged

NextIndex == ApplyGetButtonIndex

SpecIndex == InitIndex /\ [][NextIndex]_vars

(***************************************************************************)
(* Properties                                                              *)
(***************************************************************************)
Quiescent == reqq = << >> /\ cbq = << >>

IsAddRule(m) == "addRule" \in DOMAIN m
IsDeleteRule(m) == "deleteRule" \in DOMAIN m

DecimalDigits == {"0", "1", "2", "3", "4", "5", "6", "7", "8", "9"}

\* a string with no non-whitespace character
Blank(s) == \A i \in 1..Len(s) : s[i] = " "

Rejected(text) == [ok |-> FALSE, popup |-> text]

\* C1: source uniqueness -- no two rules of the stored rule list have the
\* same source.
SourceUniqueness ==
    \A i \in 1..Len(storage) : \A j \in 1..Len(storage) :
        i # j => storage[i].src # storage[j].src

\* C2: no direct redirect cycle -- no stored rule's destination equals
\* another stored rule's source.
NoDirectRedirectCycle ==
    \A i \in 1..Len(storage) : \A j \in 1..Len(storage) :
        i # j => storage[i].dest # storage[j].src

\* C3: isValidInput applies its checks in strict order and the first failing
\* one decides: Empty, then DuplicateSource, then Cycle; otherwise the
\* candidate is accepted, with the subdomain advisory exactly when the
\* subdomain difference is greater than 0.
ValidateStrictOrder ==
    fout # << >> =>
        LET s == fin.source
            d == fin.destination
            existing == fin.rules
            outcome == fout[1]
        IN  IF Blank(s) \/ Blank(d)
            THEN outcome = Rejected("NO_EMPTY_TEXT")
            ELSE IF \E i \in 1..Len(existing) : existing[i].src = s
            THEN outcome = Rejected("NO_DUPS_TEXT")
            ELSE IF \E i \in 1..Len(existing) : existing[i].dest = s
            THEN outcome = Rejected("NO_CYCLES_TEXT")
            ELSE /\ outcome.ok
                 /\ outcome.popup \in {"MISMATCHED_SUBDOMAINS_TEXT", "none"}
                 /\ outcome.popup = "MISMATCHED_SUBDOMAINS_TEXT"
                        <=> getSubdomainDifference(s, d) > 0

\* C3 witness: a candidate whose source is both an existing source and an
\* existing destination has been rejected as a duplicate.
ValidateStrictOrderWitness ==
    /\ fout = << Rejected("NO_DUPS_TEXT") >>
    /\ \E i \in 1..Len(fin.rules) : fin.rules[i].src = fin.source
    /\ \E i \in 1..Len(fin.rules) : fin.rules[i].dest = fin.source

StripProtocol(s) ==
    IF \E i \in 1..(Len(s) - 1) : s[i] = "/" /\ s[i+1] = "/"
    THEN LET i == CHOOSE k \in 1..(Len(s) - 1) :
                      /\ s[k] = "/" /\ s[k+1] = "/"
                      /\ \A j \in 1..(k-1) : ~(s[j] = "/" /\ s[j+1] = "/")
         IN SubSeq(s, i + 2, Len(s))
    ELSE s

\* the text before the first "/", or the whole text if there is none
StripPath(s) ==
    IF \E i \in 1..Len(s) : s[i] = "/"
    THEN LET i == CHOOSE k \in 1..Len(s) :
                      s[k] = "/" /\ \A j \in 1..(k-1) : s[j] # "/"
         IN SubSeq(s, 1, i - 1)
    ELSE s

\* C6: for every input string, getDomain(input) equals
\* StripPath(StripProtocol(input)).
GetDomainIsStripPathOfStripProtocol ==
    fout # << >> => fout[1] = StripPath(StripProtocol(fin.url))

\* C7: no lost update -- once every pending operation has finished, each
\* rule that was written and announced is still in storage unless a later
\* deleteRule removed a rule of that source.
NoLostUpdate ==
    Quiescent =>
        \A k \in 1..Len(msgs) :
            IsAddRule(msgs[k]) =>
                \/ \E i \in 1..Len(storage) : storage[i].src = msgs[k].addRule
                \/ \E d \in (k+1)..Len(msgs) :
                       /\ IsDeleteRule(msgs[d])
                       /\ msgs[d].deleteRule = msgs[k].addRule

\* C8: the storage callback of a storeRule whose candidate is rejected leaves
\* the stored rules as they were, issues no storage request (so no write and
\* no addRule announcement follow) and sends no announcement.
RejectedStoreRuleChangesNothing ==
    [][ ( /\ StoreRuleGetCallback
          /\ LET s == Head(cbq).cb.source
                 d == Head(cbq).cb.destination
                 existing == Head(cbq).result
             IN \/ Blank(s) \/ Blank(d)
                \/ \E i \in 1..Len(existing) : existing[i].src = s
                \/ \E i \in 1..Len(existing) : existing[i].dest = s )
        => (storage' = storage /\ reqq' = reqq /\ msgs' = msgs) ]_vars

\* C8 witness: after one rule was added and announced, a second candidate
\* has been rejected against the non-empty list.
RejectedStoreRuleWitness ==
    /\ log.msg = "Failed to add rule"
    /\ ~Blank(log.arg)
    /\ Len(storage) = 1
    /\ Len(msgs) = 1
    /\ Quiescent

\* the ids deleteRule is called with that contain no digit
DigitlessIds ==
    { id \in ButtonIds : \A i \in 1..Len(id) : id[i] \notin DecimalDigits }

\* C9: a deleteRule call whose button id contains no digit issues no storage
\* read or write, leaves the stored rules unchanged and sends no
\* deleteRule announcement.
DigitlessIdAborts ==
    [][ \A buttonId \in DigitlessIds :
            deleteRule(buttonId)
                => (storage' = storage /\ reqq' = reqq /\ cbq' = cbq /\ msgs' = msgs) ]_vars

\* C9 witness: deleteRule was called with "deleteRuleButton-" while a rule
\* was stored, and nothing is pending.
DigitlessIdAbortsWitness ==
    /\ log = [msg |-> "Invalid button index", arg |-> ButtonPrefix]
    /\ Len(storage) = 1
    /\ Quiescent

\* the integer a run of decimal digits denotes
RECURSIVE Denotes(_)
Denotes(ds) ==
    IF Len(ds) = 0 THEN 0
    ELSE (CHOOSE v \in 0..9 : Digits[v + 1] = Head(ds)) * (10 ^ (Len(ds) - 1))
             + Denotes(Tail(ds))

\* C10: getButtonIndex returns the non-negative integer denoted by the first
\* maximal run of decimal digits of the id, and null exactly when the id has
\* no digit.
ButtonIndexIsFirstDigitRun ==
    fout # << >> =>
        LET id == fin.buttonId
            index == fout[1]
        IN  /\ index = NullIndex <=> \A i \in 1..Len(id) : id[i] \notin DecimalDigits
            /\ index # NullIndex =>
                   \E i \in 1..Len(id) : \E j \in i..Len(id) :
                       /\ \A k \in 1..(i-1) : id[k] \notin DecimalDigits
                       /\ \A k \in i..j : id[k] \in DecimalDigits
                       /\ j = Len(id) \/ id[j+1] \notin DecimalDigits
                       /\ index = Denotes(SubSeq(id, i, j))
                       /\ index >= 0

\* C10 witness: an id with two runs of digits, the first of two digits, has
\* been parsed to the value of the first run.
ButtonIndexWitness ==
    /\ fout = << 19 >>
    /\ fin.buttonId = <<"1", "9", "-", "0">>


\* the protocol-removing step of getDomain applied on its own
InitProtocol ==
    /\ PageIdle
    /\ fin \in [url : Str(UrlChars, MaxUrlLen)]
    /\ fout = << >>

ApplyNoProtocol ==
    /\ fout = << >>
    /\ fout' = << noProtocolOf(fin.url) >>
    /\ UNCHANGED fin
    /\ PageUnchanged

NextProtocol == ApplyNoProtocol

SpecProtocol == InitProtocol /\ [][NextProtocol]_vars

MaxSubLen == 3

\* "one.two.three.four.five.x" and "http://one.x/path", written over UrlChars
SubdomainExamples ==
    { << "a", ".", "a", ".", "a", ".", "a", ".", "a", ".", "a" >>,
      << "a", "/", "/", "a", ".", "a", "/", "a" >> }

SubdomainInputs == Str(UrlChars, MaxSubLen) \cup SubdomainExamples

InitSubdomain ==
    /\ PageIdle
    /\ fin \in [source : SubdomainInputs, destination : SubdomainInputs]
    /\ fout = << >>

ApplyGetSubdomainDifference ==
    /\ fout = << >>
    /\ fout' = << getSubdomainDifference(fin.source, fin.destination) >>
    /\ UNCHANGED fin
    /\ PageUnchanged

NextSubdomain == ApplyGetSubdomainDifference

SpecSubdomain == InitSubdomain /\ [][NextSubdomain]_vars

(***************************************************************************)
(* The page driven with three whitespace-free names, enough to close a     *)
(* redirect chain of three rules                                           *)
(***************************************************************************)
ChainOps == 3

ChainCandidates == { <<"a">>, <<"b">>, <<"c">> }

\* the page after load, with ChainOps user operations to come
InitChain ==
    /\ storage = << >>
    /\ reqq = buildRulesTableRequests
    /\ cbq = << >>
    /\ tables = << >>
    /\ msgs = << >>
    /\ log = [msg |-> "", arg |-> << >>]
    /\ nops = MaxOps - ChainOps
    /\ fin = << >>
    /\ fout = << >>
    /\ shown = << >>

NextChain ==
    \/ \E source \in ChainCandidates, destination \in ChainCandidates :
           storeRule(source, destination, FALSE)
    \/ \E t \in 1..Len(tables) : \E r \in 1..Len(tables[t]) : ClickDeleteButton(t, r)
    \/ ServeGet
    \/ ServeSet
    \/ StoreRuleGetCallback
    \/ StoreRuleSetCallback
    \/ DeleteRuleGetCallback
    \/ DeleteRuleSetCallback
    \/ BuildRulesTableCallback

SpecChain == InitChain /\ [][NextChain]_vars

(***************************************************************************)
(* The page loaded over two rules stored by an earlier visit, and driven   *)
(* by clicks on the delete buttons only                                    *)
(***************************************************************************)
RulesAtLoad ==
    << [src |-> <<"a">>, dest |-> <<"c">>, regex |-> FALSE],
       [src |-> <<"b">>, dest |-> <<"c">>, regex |-> FALSE] >>

InitClicks ==
    /\ storage = RulesAtLoad
    /\ reqq = buildRulesTableRequests
    /\ cbq = << >>
    /\ tables = << >>
    /\ msgs = << >>
    /\ log = [msg |-> "", arg |-> << >>]
    /\ nops = 0
    /\ fin = << >>
    /\ fout = << >>
    /\ shown = << >>

NextClicks ==
    \/ \E t \in 1..Len(tables) : \E r \in 1..Len(tables[t]) : ClickDeleteButton(t, r)
    \/ ServeGet
    \/ ServeSet
    \/ DeleteRuleGetCallback
    \/ DeleteRuleSetCallback
    \/ BuildRulesTableCallback

SpecClicks == InitClicks /\ [][NextClicks]_vars

\* a string that is non-empty and neither starts nor ends with whitespace
Trimmed(s) == Len(s) > 0 /\ s[1] # " " /\ s[Len(s)] # " "

\* C11: every rule of the stored rule list has a source and a destination
\* that are non-empty and carry no leading or trailing whitespace.
StoredRulesTrimmed ==
    \A i \in 1..Len(storage) :
        Trimmed(storage[i].src) /\ Trimmed(storage[i].dest)

\* C11 witness: two rules are stored under the same source, which happens
\* only when the second was typed with padding and trimmed on the way in.
StoredRulesTrimmedWitness ==
    /\ Len(storage) = 2
    /\ storage[1].src = storage[2].src
    /\ Quiescent


\* the number of '.' characters of s
Dots(s) == Cardinality({ i \in 1..Len(s) : s[i] = "." })

\* needle occurs in hay as a contiguous run
Contains(hay, needle) ==
    \E i \in 0..(Len(hay) - Len(needle)) :
        \A k \in 1..Len(needle) : hay[i + k] = needle[k]

\* C12: the subdomain delta is the same with the arguments swapped; when the
\* shorter of the two domains is a non-empty substring of the longer, the
\* delta is the dots of the longer minus the dots of the shorter; when
\* neither domain contains the other, the delta is 0.
SubdomainDifferenceSymmetric ==
    fout # << >> =>
        LET s == getDomain(fin.source)
            d == getDomain(fin.destination)
            longer == IF Len(d) >= Len(s) THEN d ELSE s
            shorter == IF Len(d) >= Len(s) THEN s ELSE d
        IN /\ fout[1] = getSubdomainDifference(fin.destination, fin.source)
           /\ (Len(shorter) > 0 /\ Contains(longer, shorter))
                  => fout[1] = Dots(longer) - Dots(shorter)
           /\ (~Contains(s, d) /\ ~Contains(d, s)) => fout[1] = 0

\* C12 witness: the source has five labels more than the destination and the
\* delta is 5.
SubdomainDifferenceWitness ==
    /\ fin.source = << "a", ".", "a", ".", "a", ".", "a", ".", "a", ".", "a" >>
    /\ fin.destination = << "a" >>
    /\ fout = << 5 >>


\* C13: the protocol-removing step yields everything after the first "//" of
\* its input (the empty string when nothing follows it) and the input
\* unchanged when there is no "//".
ProtocolStepIsStripProtocol ==
    fout # << >> => fout[1] = StripProtocol(fin.url)


\* positions p[1]..p[n] of the stored list form a redirect chain that closes:
\* each rule's destination is the next rule's source, the last one's is the
\* first one's
ClosedChain(p, n) ==
    /\ \A i \in 1..n : \A j \in 1..n : i # j => p[i] # p[j]
    /\ \A i \in 1..(n-1) : storage[p[i]].dest = storage[p[i+1]].src
    /\ storage[p[n]].dest = storage[p[1]].src

\* C14: with whitespace-free candidates, no n >= 2 distinct stored rules
\* form a closed redirect chain, in any state of any interleaving of
\* storeRule and deleteRule.
NoRedirectCycle ==
    \A n \in 2..Len(storage) :
        \A p \in [1..n -> 1..Len(storage)] : ~ClosedChain(p, n)

\* C14 witness: b -> c and then a -> b are stored as an open chain and the
\* rule that would close it, from c, has just been refused.
NoRedirectCycleWitness ==
    /\ Len(storage) = 2
    /\ storage[2].dest = storage[1].src
    /\ storage[1].dest \notin { storage[1].src, storage[2].src }
    /\ log = [msg |-> "Failed to add rule", arg |-> storage[1].dest]


\* rule i of the list is the one a table row displays
Displays(row, rules, i) == rules[i].src = row.src /\ rules[i].dest = row.dest

\* the list without its element i
Without(rules, i) == SubSeq(rules, 1, i - 1) \o SubSeq(rules, i + 1, Len(rules))

\* C15: the write that a click on a row's delete button leads to removes
\* from storage the rule the row displayed when it was clicked and no other
\* rule (and nothing when that rule is already gone).
ClickRemovesDisplayedRule ==
    [][(ServeSet /\ Head(reqq).cb.fn = "deleteRuleSet" /\ Head(shown) # << >>)
         => LET row == Head(shown)[1]
            IN IF \E i \in 1..Len(storage) : Displays(row, storage, i)
               THEN \E i \in 1..Len(storage) :
                        Displays(row, storage, i) /\ storage' = Without(storage, i)
               ELSE storage' = storage]_vars

====
